---- MODULE Spec2Model ----
(***************************************************************************)
(* Model of the upload decoder and request router of lambda_function.py.   *)
(*                                                                         *)
(* A byte is a one-character string ("a", "-", "\r", ...); the bytes that  *)
(* are not ASCII are written "xC3", "xA9" (together the UTF-8 encoding of  *)
(* U+00E9) and "xFF" (never valid in UTF-8).  A bytes object or a str is a *)
(* sequence of such symbols.                                               *)
(***************************************************************************)
EXTENDS Integers, Sequences, FiniteSets, TLC

VARIABLES content_type, body, form, pc, result, raised, scanned,
          event, s3_client, response, calls, outcomes, users, login,
          stream, consumed, final_response_parts, final_answer

vars == <<content_type, body, form, pc, result, raised, scanned,
          event, s3_client, response, calls, outcomes, users, login,
          stream, consumed, final_response_parts, final_answer>>

-----------------------------------------------------------------------------
(* Bounds of the model. *)

\* Largest number of parts a generated body holds.
MaxParts == 2
\* Largest length of a generated file content or text value.
MaxLen == 2
MaxMessages == 6

-----------------------------------------------------------------------------
(* Python's bytes and str primitives. *)

Min(S) == CHOOSE x \in S : \A y \in S : x <= y

\* ASCII whitespace, what bytes.strip() and str.strip() remove with no argument.
Whitespace == {" ", "\t", "\n", "\r", "x0B", "x0C"}

\* The length of s.rstrip(chars): the last position that holds no member of
\* chars, 0 when there is none.
RStripEnd(s, chars) ==
    CHOOSE i \in 0..Len(s) :
        /\ i = 0 \/ s[i] \notin chars
        /\ \A j \in (i + 1)..Len(s) : s[j] \in chars

\* The first position of s that holds no member of chars, Len(s) + 1 when
\* there is none.
LStripStart(s, chars) ==
    CHOOSE i \in 1..(Len(s) + 1) :
        /\ i = Len(s) + 1 \/ s[i] \notin chars
        /\ \A j \in 1..(i - 1) : s[j] \in chars

\* s.rstrip(chars): drops the longest suffix made of members of chars.
RStrip(s, chars) == SubSeq(s, 1, RStripEnd(s, chars))

\* s.strip(chars): drops the longest prefix and suffix made of members of chars.
Strip(s, chars) == SubSeq(s, LStripStart(s, chars), RStripEnd(s, chars))

\* s.startswith(p)
StartsWith(s, p) == Len(s) >= Len(p) /\ SubSeq(s, 1, Len(p)) = p

\* s.find(d) + 1 for a non-empty d: the first position where d occurs in s,
\* 0 when it does not.
Find(s, d) ==
    LET hits == {i \in 1..(Len(s) - Len(d) + 1) :
                    s[i] = d[1] /\ SubSeq(s, i, i + Len(d) - 1) = d}
    IN  IF hits = {} THEN 0 ELSE Min(hits)

\* d in s
Contains(s, d) == Find(s, d) # 0

\* s.split(d, 1)
SplitOnce(s, d) ==
    LET i == Find(s, d)
    IN  IF i = 0 THEN <<s>>
        ELSE <<SubSeq(s, 1, i - 1), SubSeq(s, i + Len(d), Len(s))>>

\* s.split(d): the segments between the non-overlapping occurrences of d,
\* found left to right.
RECURSIVE Split(_, _)
Split(s, d) ==
    LET i == Find(s, d)
    IN  IF i = 0 THEN <<s>>
        ELSE <<SubSeq(s, 1, i - 1)>> \o Split(SubSeq(s, i + Len(d), Len(s)), d)

UpperCase == <<"A", "B", "C", "D", "E", "F", "G", "H", "I", "J", "K", "L", "M",
               "N", "O", "P", "Q", "R", "S", "T", "U", "V", "W", "X", "Y", "Z">>
LowerCase == <<"a", "b", "c", "d", "e", "f", "g", "h", "i", "j", "k", "l", "m",
               "n", "o", "p", "q", "r", "s", "t", "u", "v", "w", "x", "y", "z">>

\* s.lower()
Lower(s) ==
    [i \in 1..Len(s) |->
        IF \E k \in 1..26 : UpperCase[k] = s[i]
        THEN LowerCase[CHOOSE k \in 1..26 : UpperCase[k] = s[i]]
        ELSE s[i]]

\* The bytes of the alphabet that are not ASCII.
NonAscii == {"xC3", "xA9", "xFF"}

\* What the byte at position i is in a UTF-8 stream: "ascii", the "lead" or
\* the "cont" byte of the pair C3 A9, or "bad" (it belongs to no valid
\* sequence).
Utf8Role(b, i) ==
    IF b[i] \notin NonAscii THEN "ascii"
    ELSE IF b[i] = "xC3" /\ i < Len(b) /\ b[i + 1] = "xA9" THEN "lead"
    ELSE IF b[i] = "xA9" /\ i > 1 /\ b[i - 1] = "xC3" THEN "cont"
    ELSE "bad"

\* Whether b.decode('utf-8') succeeds.
Utf8Valid(b) == \A i \in 1..Len(b) : Utf8Role(b, i) # "bad"

\* b.decode('utf-8', errors='ignore'): one character per valid sequence, the
\* bytes that belong to none are dropped.  On valid input it is
\* b.decode('utf-8').
Utf8Decode(b) ==
    LET Starts(i) == Utf8Role(b, i) \in {"ascii", "lead"}
        starts == SelectSeq([i \in 1..Len(b) |-> i], Starts)
    IN  [k \in 1..Len(starts) |->
            IF b[starts[k]] = "xC3" THEN "U+00E9" ELSE b[starts[k]]]

\* s.encode('utf-8'): U+00E9 becomes the two bytes C3 A9.
Utf8Encode(s) ==
    LET Width(c) == IF c = "U+00E9" THEN 2 ELSE 1
        \* The number of bytes the first k characters take.
        Offset[k \in 0..Len(s)] == IF k = 0 THEN 0 ELSE Offset[k - 1] + Width(s[k])
        At(j) == CHOOSE k \in 1..Len(s) : Offset[k - 1] < j /\ j <= Offset[k]
    IN  [j \in 1..Offset[Len(s)] |->
            IF s[At(j)] # "U+00E9" THEN s[At(j)]
            ELSE IF j = Offset[At(j) - 1] + 1 THEN "xC3" ELSE "xA9"]

\* A Python dict as a function; d[k] = v.
Put(d, k, v) == [x \in DOMAIN d \cup {k} |-> IF x = k THEN v ELSE d[x]]

\* d.get(k, default)
Get(d, k, default) == IF k \in DOMAIN d THEN d[k] ELSE default

EmptyDict == [x \in {} |-> <<>>]

\* Optional[str]
None == [some |-> FALSE, val |-> <<>>]
Some(v) == [some |-> TRUE, val |-> v]
\* The truth value of an Optional[str]: None and '' are false.
Truthy(o) == o.some /\ o.val # <<>>

-----------------------------------------------------------------------------
(* parse_multipart_form_data *)

BoundaryEq == <<"b", "o", "u", "n", "d", "a", "r", "y", "=">>
NameEq == <<"n", "a", "m", "e", "=">>
FilenameEq == <<"f", "i", "l", "e", "n", "a", "m", "e", "=">>
ContentDispositionKey == <<"c", "o", "n", "t", "e", "n", "t", "-", "d", "i", "s", "p", "o", "s", "i", "t", "i", "o", "n">>
ContentTypeKey == <<"c", "o", "n", "t", "e", "n", "t", "-", "t", "y", "p", "e">>
OctetStream == <<"a", "p", "p", "l", "i", "c", "a", "t", "i", "o", "n", "/", "o", "c", "t", "e", "t", "-", "s", "t", "r", "e", "a", "m">>
FileKey == <<"f", "i", "l", "e">>
Dashes == <<"-", "-">>
CRLFCRLF == <<"\r", "\n", "\r", "\n">>
LFLF == <<"\n", "\n">>
\* The characters of content.rstrip(b'\r\n--').
TrailerChars == {"\r", "\n", "-"}
Quote == {"\""}

\* Unquote with the quotes left in place.
UnquoteNothing(v) == v

\* v.strip('"')
Unquote(v) == Strip(v, Quote)

\* ExtractBoundary with 'boundary=' looked for anywhere in a segment, not at
\* its start.
RECURSIVE BoundaryAnywhereFrom(_, _)
BoundaryAnywhereFrom(segs, i) ==
    IF i > Len(segs) THEN None
    ELSE LET part == Strip(segs[i], Whitespace)
         IN  IF Contains(part, BoundaryEq)
             THEN Some(Strip(SplitOnce(part, <<"=">>)[2], Quote))
             ELSE BoundaryAnywhereFrom(segs, i + 1)

ExtractBoundaryAnywhere(ct) == BoundaryAnywhereFrom(Split(ct, <<";">>), 1)

\* The loop over content_type.split(';'): the first trimmed segment that
\* starts with 'boundary=' decides, and the loop breaks there.
RECURSIVE BoundaryFrom(_, _)
BoundaryFrom(segs, i) ==
    IF i > Len(segs) THEN None
    ELSE LET part == Strip(segs[i], Whitespace)
         IN  IF StartsWith(part, BoundaryEq)
             THEN Some(Unquote(SplitOnce(part, <<"=">>)[2]))
             ELSE BoundaryFrom(segs, i + 1)

ExtractBoundary(ct) == BoundaryFrom(Split(ct, <<";">>), 1)

\* if not part.strip() or part.strip() == b'--': continue
IsSkipped(part) ==
    \/ Strip(part, Whitespace) = <<>>
    \/ Strip(part, Whitespace) = Dashes

\* CutPart with a part that has no blank line taken as headers alone.
CutPartLenient(part) ==
    IF Contains(part, CRLFCRLF)
    THEN [ok |-> TRUE, headers_raw |-> SplitOnce(part, CRLFCRLF)[1],
          content |-> SplitOnce(part, CRLFCRLF)[2]]
    ELSE IF Contains(part, LFLF)
    THEN [ok |-> TRUE, headers_raw |-> SplitOnce(part, LFLF)[1],
          content |-> SplitOnce(part, LFLF)[2]]
    ELSE [ok |-> TRUE, headers_raw |-> part, content |-> <<>>]

\* The headers and the content a part is cut into: at its first CR LF CR LF
\* when it holds one, else at its first LF LF when it holds one; else the part
\* is skipped (ok is false).
CutPart(part) ==
    IF Contains(part, CRLFCRLF)
    THEN [ok |-> TRUE, headers_raw |-> SplitOnce(part, CRLFCRLF)[1],
          content |-> SplitOnce(part, CRLFCRLF)[2]]
    ELSE IF Contains(part, LFLF)
    THEN [ok |-> TRUE, headers_raw |-> SplitOnce(part, LFLF)[1],
          content |-> SplitOnce(part, LFLF)[2]]
    ELSE [ok |-> FALSE, headers_raw |-> <<>>, content |-> <<>>]

\* The loop over the header lines: a line with a colon sets
\* headers[key.strip().lower()] = value.strip().
RECURSIVE HeadersFrom(_, _, _)
HeadersFrom(lines, i, headers) ==
    IF i > Len(lines) THEN headers
    ELSE IF Contains(lines[i], <<":">>)
    THEN LET kv == SplitOnce(lines[i], <<":">>)
         IN  HeadersFrom(lines, i + 1,
                 Put(headers, Lower(Strip(kv[1], Whitespace)), Strip(kv[2], Whitespace)))
    ELSE HeadersFrom(lines, i + 1, headers)

ParseHeaders(headers_raw) ==
    HeadersFrom(Split(Utf8Decode(headers_raw), <<"\n">>), 1, EmptyDict)

\* The loop over content_disposition.split(';'): field_name and filename, each
\* set by every item that starts with its keyword, the last one winning.
RECURSIVE DispositionFrom(_, _, _)
DispositionFrom(items, i, acc) ==
    IF i > Len(items) THEN acc
    ELSE LET item == Strip(items[i], Whitespace)
         IN  IF StartsWith(item, NameEq)
             THEN DispositionFrom(items, i + 1,
                      [acc EXCEPT !.field_name = Some(Unquote(SplitOnce(item, <<"=">>)[2]))])
             ELSE IF StartsWith(item, FilenameEq)
             THEN DispositionFrom(items, i + 1,
                      [acc EXCEPT !.filename = Some(Unquote(SplitOnce(item, <<"=">>)[2]))])
             ELSE DispositionFrom(items, i + 1, acc)

ParseDisposition(content_disposition) ==
    DispositionFrom(Split(content_disposition, <<";">>), 1,
                    [field_name |-> None, filename |-> None])

\* The record stored for a file part.
FileRecord(filename, content, headers) ==
    [kind |-> "file",
     filename |-> filename,
     content |-> RStrip(content, TrailerChars),
     content_type |-> Get(headers, ContentTypeKey, OctetStream)]

\* The bytes of a text part before they are decoded.
CleanText(content) == RStrip(RStrip(content, TrailerChars), Whitespace)

\* The value stored for a text part.
TextValue(content) == [kind |-> "text", text |-> Utf8Decode(CleanText(content))]

\* StorePart with a part that has neither name nor filename kept, under ''.
StorePartKeepAnonymous(disp, headers, content, res) ==
    IF Truthy(disp.filename)
    THEN [raised |-> "none",
          result |-> Put(res, FileKey, FileRecord(disp.filename.val, content, headers))]
    ELSE IF Utf8Valid(CleanText(content))
    THEN [raised |-> "none",
          result |-> Put(res, disp.field_name.val, TextValue(content))]
    ELSE [raised |-> "UnicodeDecodeError", result |-> EmptyDict]

\* StorePart with the name tested before the filename.
StorePartNameFirst(disp, headers, content, res) ==
    IF Truthy(disp.field_name)
    THEN IF Utf8Valid(CleanText(content))
         THEN [raised |-> "none",
               result |-> Put(res, disp.field_name.val, TextValue(content))]
         ELSE [raised |-> "UnicodeDecodeError", result |-> EmptyDict]
    ELSE IF Truthy(disp.filename)
    THEN [raised |-> "none",
          result |-> Put(res, FileKey, FileRecord(disp.filename.val, content, headers))]
    ELSE [raised |-> "none", result |-> res]

\* StorePart with a file stored under its declared name when it has one.
StorePartFileUnderName(disp, headers, content, res) ==
    IF Truthy(disp.filename)
    THEN [raised |-> "none",
          result |-> Put(res, IF Truthy(disp.field_name) THEN disp.field_name.val ELSE FileKey,
                         FileRecord(disp.filename.val, content, headers))]
    ELSE IF Truthy(disp.field_name)
    THEN IF Utf8Valid(CleanText(content))
         THEN [raised |-> "none",
               result |-> Put(res, disp.field_name.val, TextValue(content))]
         ELSE [raised |-> "UnicodeDecodeError", result |-> EmptyDict]
    ELSE [raised |-> "none", result |-> res]

\* The if/elif that ends the loop body: what a part with these headers and
\* this content does to result.  raised names the exception that escapes, and
\* then nothing is returned.
StorePart(disp, headers, content, res) ==
    IF Truthy(disp.filename)
    THEN [raised |-> "none",
          result |-> Put(res, FileKey, FileRecord(disp.filename.val, content, headers))]
    ELSE IF Truthy(disp.field_name)
    THEN IF Utf8Valid(CleanText(content))
         THEN [raised |-> "none",
               result |-> Put(res, disp.field_name.val, TextValue(content))]
         ELSE [raised |-> "UnicodeDecodeError", result |-> EmptyDict]
    ELSE [raised |-> "none", result |-> res]

\* One turn of the loop over the parts.
ParsePart(part, res) ==
    IF IsSkipped(part) THEN [raised |-> "none", result |-> res]
    ELSE IF ~CutPart(part).ok THEN [raised |-> "none", result |-> res]
    ELSE LET cut == CutPart(part)
             headers == ParseHeaders(cut.headers_raw)
             disp == ParseDisposition(Get(headers, ContentDispositionKey, <<>>))
         IN  StorePart(disp, headers, cut.content, res)

RECURSIVE ParseParts(_, _, _)
ParseParts(parts, i, res) ==
    IF i > Len(parts) THEN [raised |-> "none", result |-> res]
    ELSE LET r == ParsePart(parts[i], res)
         IN  IF r.raised # "none" THEN r
             ELSE ParseParts(parts, i + 1, r.result)

\* body.split(f"--{boundary}".encode('utf-8'))
SplitBody(b, boundary) == Split(b, Dashes \o Utf8Encode(boundary))

\* parse_multipart_form_data(body, content_type) on a bytes body: the
\* exception that escapes ("none" when it returns), the dict returned, and
\* whether the body was split.
ParseMultipartFormData(b, ct) ==
    LET boundary == ExtractBoundary(ct)
    IN  IF ~Truthy(boundary)
        THEN [raised |-> "ValueError", result |-> EmptyDict, scanned |-> FALSE]
        ELSE LET r == ParseParts(SplitBody(b, boundary.val), 1, EmptyDict)
             IN  [raised |-> r.raised, result |-> r.result, scanned |-> TRUE]

-----------------------------------------------------------------------------
(* The requests a client sends: a form is rendered into the Content-Type     *)
(* value and the body bytes the decoder is called with.                      *)

\* The sequences over S of length at most n.
SeqsUpTo(S, n) == UNION {[1..k -> S] : k \in 0..n}

\* A value written with or without a wrapping pair of double quotes.
Quoted(v, quoted) == IF quoted THEN <<"\"">> \o v \o <<"\"">> ELSE v

MultipartFormData == <<"m", "u", "l", "t", "i", "p", "a", "r", "t", "/", "f", "o", "r", "m", "-", "d", "a", "t", "a">>
CharsetParam == <<";", " ", "c", "h", "a", "r", "s", "e", "t", "=", "u", "t", "f", "-", "8">>
BoundaryParam == <<";", " ", "b", "o", "u", "n", "d", "a", "r", "y", "=">>
UpperBoundaryParam == <<";", " ", "B", "o", "u", "n", "d", "a", "r", "y", "=">>
InnerBoundaryParam == <<";", " ", "x", "b", "o", "u", "n", "d", "a", "r", "y", "=">>
DispositionLine == <<"C", "o", "n", "t", "e", "n", "t", "-", "D", "i", "s", "p", "o", "s", "i", "t", "i", "o", "n", ":", " ", "f", "o", "r", "m", "-", "d", "a", "t", "a">>
NameParam == <<";", " ", "n", "a", "m", "e", "=">>
FilenameParam == <<";", " ", "f", "i", "l", "e", "n", "a", "m", "e", "=">>
ImagePngLine == <<"c", "o", "n", "t", "e", "n", "t", "-", "T", "Y", "P", "E", ":", " ", "i", "m", "a", "g", "e", "/", "p", "n", "g">>
TextPlainLine == <<"C", "o", "n", "t", "e", "n", "t", "-", "T", "y", "p", "e", ":", " ", "t", "e", "x", "t", "/", "p", "l", "a", "i", "n">>
ImagePng == <<"i", "m", "a", "g", "e", "/", "p", "n", "g">>
CRLF == <<"\r", "\n">>
LF == <<"\n">>

\* The Content-Type header value of a request.  shape says which segments it
\* carries; token is the boundary the body is delimited with.
RenderCT(ct) ==
    CASE ct.shape = "plain" ->
           MultipartFormData \o BoundaryParam \o Quoted(ct.token, ct.quoted)
      [] ct.shape = "charset" ->
           MultipartFormData \o CharsetParam \o BoundaryParam \o Quoted(ct.token, ct.quoted)
      [] ct.shape = "none" -> MultipartFormData
      [] ct.shape = "other" -> MultipartFormData \o CharsetParam
      [] ct.shape = "empty" ->
           MultipartFormData \o CharsetParam \o BoundaryParam \o Quoted(<<>>, ct.quoted)
      [] ct.shape = "emptyfirst" ->
           MultipartFormData \o BoundaryParam \o Quoted(<<>>, ct.quoted)
              \o BoundaryParam \o Quoted(ct.token, ct.quoted)
      [] ct.shape = "upper" ->
           MultipartFormData \o UpperBoundaryParam \o Quoted(ct.token, ct.quoted)
      [] ct.shape = "inner" ->
           MultipartFormData \o InnerBoundaryParam \o Quoted(ct.token, ct.quoted)

\* The Content-Disposition line of a part.  A part with blankFilename writes
\* a filename= item with an empty value, as browsers do for an empty file input.
RenderDisposition(p) ==
    LET name == IF p.name = <<>> THEN <<>>
                ELSE NameParam \o Quoted(p.name, p.quoted)
        filename == IF p.filename = <<>> /\ ~p.blankFilename THEN <<>>
                    ELSE FilenameParam \o Quoted(p.filename, p.quoted)
    IN  DispositionLine \o (IF p.fnFirst THEN filename \o name ELSE name \o filename)

\* The bytes between two delimiters for one part.  A "part" has its header
\* lines, a blank line and its content; a "nosep" part has no blank line; a
\* "raw" segment is its content alone.
RenderPart(p) ==
    LET eol == IF p.lf THEN LF ELSE CRLF
        disp == IF p.hasDisp THEN RenderDisposition(p) \o eol ELSE <<>>
        ctype == IF p.ctLine = <<>> THEN <<>> ELSE p.ctLine \o eol
    IN  CASE p.kind = "raw" -> p.content
          [] p.kind = "nosep" -> eol \o disp \o ctype \o p.content \o eol
          [] p.kind = "part" -> eol \o disp \o ctype \o eol \o p.content \o eol

RECURSIVE RenderParts(_, _)
RenderParts(parts, delimiter) ==
    IF parts = <<>> THEN <<>>
    ELSE delimiter \o RenderPart(Head(parts)) \o RenderParts(Tail(parts), delimiter)

\* The body of a request: preamble, the delimited parts, the closing marker.
RenderBody(f) ==
    LET delimiter == Dashes \o f.ct.token
    IN  f.preamble \o RenderParts(f.parts, delimiter)
          \o (IF f.closed THEN delimiter \o Dashes \o CRLF ELSE <<>>)

-----------------------------------------------------------------------------
(* The forms the model sends. *)

XYZ == <<"X", "Y", "Z">>
Payload == <<"p", "a", "y", "l", "o", "a", "d">>
APdf == <<"a", ".", "p", "d", "f">>
BPng == <<"b", ".", "p", "n", "g">>
MyDocPdf == <<"m", "y", " ", "d", "o", "c", ".", "p", "d", "f">>
PdfBytes == <<"%", "P", "D", "F">>

\* A part with a name and no filename.
TextPart(name, value, quoted) ==
    [kind |-> "part", hasDisp |-> TRUE, name |-> name, filename |-> <<>>,
     blankFilename |-> FALSE, quoted |-> quoted, fnFirst |-> FALSE,
     ctLine |-> <<>>, content |-> value, lf |-> FALSE]

\* A part with a filename.
FilePart(name, filename, content, quoted, fnFirst, ctLine) ==
    [kind |-> "part", hasDisp |-> TRUE, name |-> name, filename |-> filename,
     blankFilename |-> FALSE, quoted |-> quoted, fnFirst |-> fnFirst,
     ctLine |-> ctLine, content |-> content, lf |-> FALSE]

PayloadText == TextPart(Payload, <<"t", "1">>, TRUE)
PdfFile == FilePart(FileKey, APdf, PdfBytes, TRUE, FALSE, <<>>)
PngFile == FilePart(<<"u", "p">>, BPng, <<"P", "N", "G">>, FALSE, TRUE, ImagePngLine)
\* A text part whose declared name is 'file'.
FileNamedText == TextPart(FileKey, <<"x">>, FALSE)
\* A text part whose content is the UTF-8 encoding of U+00E9.
Utf8Text == TextPart(<<"q">>, <<"xC3", "xA9">>, TRUE)
\* A text part whose content is not valid UTF-8.
BadUtf8Text == TextPart(<<"q">>, <<"a", "xFF">>, TRUE)
\* A part whose Content-Disposition has neither name= nor filename=.
AnonPart == [TextPart(<<>>, <<"n", "xFF">>, FALSE) EXCEPT !.ctLine = TextPlainLine]
\* A part with a name and an empty filename.
BlankFilenamePart == [TextPart(<<"u", "p">>, <<>>, TRUE) EXCEPT !.blankFilename = TRUE]
\* A part with no Content-Disposition header.
NoDispPart == [AnonPart EXCEPT !.hasDisp = FALSE]
\* A segment with headers and no blank line.
NoSepPart == [TextPart(<<"n", "s">>, <<"v">>, TRUE) EXCEPT !.kind = "nosep"]
\* A part whose lines end in LF alone.
LfPart == [TextPart(<<"l">>, <<"v">>, TRUE) EXCEPT !.lf = TRUE]
RawSegment(bytes) == [TextPart(<<>>, bytes, FALSE) EXCEPT !.kind = "raw"]
BlankSegment == RawSegment(CRLF)
EmptySegment == RawSegment(<<>>)

GenParts == {PayloadText, PdfFile, PngFile, FileNamedText, Utf8Text, BadUtf8Text,
             AnonPart, NoDispPart, NoSepPart, LfPart, BlankFilenamePart,
             BlankSegment, EmptySegment}

PlainCT == [shape |-> "plain", token |-> XYZ, quoted |-> FALSE]
Shapes == {"plain", "charset", "none", "other", "empty", "emptyfirst", "upper", "inner"}
Boundaries == {XYZ, <<"b", "-", "1">>}

\* Text before the first delimiter: none, a line of prose, and text that has
\* the form of a part.
ProsePreamble == <<"M", "I", "M", "E">> \o CRLF
PartPreamble == DispositionLine \o NameParam \o <<"p", "r", "e">> \o CRLFCRLF \o <<"v">> \o CRLF
Preambles == {<<>>, CRLF, ProsePreamble, PartPreamble}

\* Every shape of Content-Type, on short bodies.
FormsCT ==
    {[ct |-> [shape |-> s, token |-> t, quoted |-> q], preamble |-> <<>>,
      parts |-> ps, closed |-> TRUE] :
        s \in Shapes, t \in Boundaries, q \in BOOLEAN,
        ps \in {<<>>, <<PayloadText>>, <<PdfFile, PayloadText>>}}

\* Every sequence of parts, regular and anomalous.
FormsGeneral ==
    {[ct |-> PlainCT, preamble |-> <<>>, parts |-> ps, closed |-> TRUE] :
        ps \in SeqsUpTo(GenParts, MaxParts)}

\* Every framing: preamble, closing marker or none.
FormsFraming ==
    {[ct |-> PlainCT, preamble |-> pre, parts |-> ps, closed |-> c] :
        pre \in Preambles, c \in BOOLEAN,
        ps \in SeqsUpTo({PayloadText, PdfFile, BlankSegment}, MaxParts)}

FileAlphabet == {"a", "-", "\r", "\n", "xFF"}
TextAlphabet == {"t", " ", "-"}

\* Well-formed bodies with one file part and one text part, in both orders.
FormsRoundTrip ==
    {[ct |-> PlainCT, preamble |-> <<>>, parts |-> ps, closed |-> TRUE] :
        ps \in UNION {{<<FilePart(FileKey, APdf, c, TRUE, FALSE, <<>>), TextPart(Payload, v, TRUE)>>,
                       <<TextPart(Payload, v, TRUE), FilePart(FileKey, APdf, c, TRUE, FALSE, <<>>)>>} :
                      <<c, v>> \in (SeqsUpTo(FileAlphabet, MaxLen) \X {<<"t", "1">>})
                                   \cup ({PdfBytes} \X SeqsUpTo(TextAlphabet, MaxLen))}}

\* Names, filenames and boundaries, each written quoted and unquoted.
FormsQuote ==
    {[ct |-> [shape |-> "plain", token |-> t, quoted |-> q], preamble |-> <<>>,
      parts |-> <<FilePart(n, fn, PdfBytes, qf, FALSE, <<>>), TextPart(n, <<"t", "1">>, qt)>>,
      closed |-> TRUE] :
        t \in Boundaries, q \in BOOLEAN, qf \in BOOLEAN, qt \in BOOLEAN,
        n \in {Payload, <<"a", " ", "b">>}, fn \in {APdf, MyDocPdf}}

Forms == FormsCT \cup FormsGeneral \cup FormsFraming \cup FormsRoundTrip \cup FormsQuote

-----------------------------------------------------------------------------
(* lambda_handler *)

ApplicationJson == <<"a", "p", "p", "l", "i", "c", "a", "t", "i", "o", "n", "/", "j", "s", "o", "n">>
ResumeTxt == <<"r", "e", "s", "u", "m", "e", ".", "t", "x", "t">>
UpperPdf == <<"A", ".", "P", "D", "F">>
DotPdf == <<".", "p", "d", "f">>

\* The JSON documents of the model, written short: an object that satisfies
\* QueryChatModel (and so UserLoginData), one that satisfies UserLoginData
\* alone, the empty object, a list, an object with a field of the wrong type,
\* and text that is not JSON.
ChatDoc == <<"{", "c", "h", "a", "t", "}">>
LoginDoc == <<"{", "l", "o", "g", "i", "n", "}">>
EmptyDoc == <<"{", "}">>
ListDoc == <<"[", "]">>
WrongTypeDoc == <<"{", "5", "}">>
NotJsonDoc == <<"{">>

\* json.loads(text): what the document is, "JSONDecodeError" when it is none.
JsonLoads(text) ==
    CASE text = ChatDoc -> "chat"
      [] text = LoginDoc -> "login"
      [] text = EmptyDoc -> "empty"
      [] text = ListDoc -> "list"
      [] text = WrongTypeDoc -> "wrongtype"
      [] OTHER -> "JSONDecodeError"

\* UserLoginData(**body): the exception it raises, "none" when it validates.
\* body is "None" when the request was multipart.
ValidateLogin(doc) ==
    CASE doc \in {"chat", "login"} -> "none"
      [] doc \in {"empty", "wrongtype"} -> "ValidationError"
      [] OTHER -> "TypeError"

\* QueryChatModel(**body)
ValidateChat(doc) ==
    CASE doc = "chat" -> "none"
      [] doc \in {"login", "empty", "wrongtype"} -> "ValidationError"
      [] OTHER -> "TypeError"

AllowedExtensionsAndTxt ==
    {<<".", "p", "d", "f">>, <<".", "d", "o", "c", "x">>, <<".", "j", "p", "e", "g">>,
     <<".", "j", "p", "g">>, <<".", "p", "n", "g">>, <<".", "t", "x", "t">>}
AllowedExtensions ==
    {<<".", "p", "d", "f">>, <<".", "d", "o", "c", "x">>, <<".", "j", "p", "e", "g">>,
     <<".", "j", "p", "g">>, <<".", "p", "n", "g">>}

\* The last position of c in s, 0 when there is none.
LastIndex(s, c) ==
    CHOOSE i \in 0..Len(s) :
        /\ i = 0 \/ s[i] = c
        /\ \A j \in (i + 1)..Len(s) : s[j] # c

\* os.path.splitext(filename)[1]: from the last dot of the last path
\* component, when a character other than a dot precedes it there.
SplitExt(filename) ==
    LET sep == LastIndex(filename, "/")
        dot == LastIndex(filename, ".")
    IN  IF dot > sep /\ \E k \in (sep + 1)..(dot - 1) : filename[k] # "."
        THEN SubSeq(filename, dot, Len(filename))
        ELSE <<>>

\* event.get("path", event.get("rawPath"))
EventPath(e) == IF e.path # "absent" THEN e.path ELSE e.rawPath

\* event.get("httpMethod", event.get("requestContext", {}).get("http", {}).get("method"))
EventMethod(e) == IF e.httpMethod # "absent" THEN e.httpMethod ELSE e.ctxMethod

\* The tests of the routing chain.
IsLoginRouteAnyMethod(path, http_method) == path = "/login"
IsLoginRoute(path, http_method) == path = "/login" /\ http_method = "POST"
IsChatRoute(path, http_method) == path = "/api/chat/ask" /\ http_method = "POST"
IsUploadRoute(path, http_method) == path = "/upload" /\ http_method = "POST"
IsIgnoredRoute(path) == path \in {"/", "/favicon.ico"}

\* A response, and what a step of the handler ends in: a response returned or
\* an exception raised, with the collaborator calls made so far.
\* details is the exception whose message the body carries, "none" when it
\* carries none.
Response(status, message) ==
    [statusCode |-> status, message |-> message, lead |-> FALSE, details |-> "none"]
NoResponse == Response(0, "none")
Return(status, message, done) == [exc |-> "none", response |-> Response(status, message), calls |-> done]
Raise(exc, done) == [exc |-> exc, response |-> NoResponse, calls |-> done]
\* A 500 response whose body carries str(e).
Fail(message, exc, done) ==
    [exc |-> "none", response |-> [Response(500, message) EXCEPT !.details = exc], calls |-> done]

\* The body as the routes see it: "None" for a multipart request, else the
\* JSON document, or the exception that decoding it raises.
ParseBody(e) ==
    IF Contains(e.contentType, MultipartFormData)
    THEN IF e.b64 = "invalid" THEN "binascii.Error" ELSE "None"
    ELSE IF e.b64 = "invalid" THEN "binascii.Error"
    ELSE JsonLoads(e.body)

\* Route 1: POST /login.  o names what each collaborator does in this request.
LoginRouteFailFast(doc, o) ==
    IF ValidateLogin(doc) # "none" THEN Raise(ValidateLogin(doc), <<>>)
    ELSE IF o.crm # "ok" THEN Raise("Exception", <<"create_salesforce_lead">>)
    ELSE [exc |-> "none",
          response |-> [Response(200, "login") EXCEPT !.lead = TRUE],
          calls |-> <<"create_salesforce_lead", "handle_user_login">>]
LoginRouteLeadFromStore(doc, o) ==
    IF ValidateLogin(doc) # "none" THEN Raise(ValidateLogin(doc), <<>>)
    ELSE [exc |-> "none",
          response |-> [Response(200, "login") EXCEPT !.lead = (o.crm = "ok" \/ o.db = "stored_id")],
          calls |-> <<"create_salesforce_lead", "handle_user_login">>]
\* The body of its 200 response is the dict data: the four fields of
\* UserLoginData (message "login"), and salesforce_lead_id (lead) when
\* create_salesforce_lead returned; what handle_user_login returns is dropped.
LoginRoute(doc, o) ==
    IF ValidateLogin(doc) # "none" THEN Raise(ValidateLogin(doc), <<>>)
    ELSE [exc |-> "none",
          response |-> [Response(200, "login") EXCEPT !.lead = (o.crm = "ok")],
          calls |-> <<"create_salesforce_lead", "handle_user_login">>]

\* Route 2: POST /api/chat/ask.
ChatRoute(doc, o) ==
    IF ValidateChat(doc) # "none" THEN Raise(ValidateChat(doc), <<>>)
    ELSE IF o.rag # "ok" THEN Raise("Exception", <<"main_execution_flow">>)
    ELSE Return(200, "chat", <<"main_execution_flow", "add_user_chat">>)

\* parse_multipart_form_data(body_bytes, content_type) as /upload calls it:
\* body_bytes is None when the request was not multipart, and splitting it
\* raises.
ParseUpload(e) ==
    IF Contains(e.contentType, MultipartFormData)
    THEN ParseMultipartFormData(e.body, e.contentType)
    ELSE IF Truthy(ExtractBoundary(e.contentType))
    THEN [raised |-> "AttributeError", result |-> EmptyDict, scanned |-> FALSE]
    ELSE [raised |-> "ValueError", result |-> EmptyDict, scanned |-> FALSE]

\* The truth value of multipart_data.get(key).
HasField(data, key) ==
    /\ key \in DOMAIN data
    /\ data[key].kind = "text" => data[key].text # <<>>

\* Route 3: POST /upload, after the object-store client was found and
\* parse_multipart_form_data ended in r.
UploadStepsPayloadFirst(r, o) ==
    LET data == r.result
        parsed == <<"parse_multipart_form_data">>
        stored == parsed \o <<"upload_fileobj">>
        signed == stored \o <<"generate_presigned_url">>
        s3_error == "Failed to upload file to S3"
        unexpected == "An unexpected error occurred during file upload"
    IN  IF r.raised # "none" THEN Fail(unexpected, r.raised, parsed)
        ELSE IF ~HasField(data, FileKey) THEN Return(400, "No file provided", parsed)
        ELSE IF ~HasField(data, Payload) THEN Return(400, "No payload provided", parsed)
        ELSE IF data[FileKey].kind # "file" THEN Fail(unexpected, "TypeError", parsed)
        ELSE IF Lower(SplitExt(data[FileKey].filename)) \notin AllowedExtensions
        THEN Return(400, "File type not allowed", parsed)
        ELSE IF JsonLoads(data[Payload].text) = "JSONDecodeError"
        THEN Fail(unexpected, "JSONDecodeError", parsed)
        ELSE IF ValidateChat(JsonLoads(data[Payload].text)) # "none"
        THEN Fail(unexpected, ValidateChat(JsonLoads(data[Payload].text)), parsed)
        ELSE IF o.put = "ClientError" THEN Fail(s3_error, "ClientError", stored)
        ELSE IF o.put # "ok" THEN Fail(unexpected, "Exception", stored)
        ELSE IF o.presign = "ClientError" THEN Fail(s3_error, "ClientError", signed)
        ELSE IF o.presign # "ok" THEN Fail(unexpected, "Exception", signed)
        ELSE Return(200, "File uploaded successfully", signed \o <<"add_user_chat">>)
UploadSteps(r, o) ==
    LET data == r.result
        parsed == <<"parse_multipart_form_data">>
        stored == parsed \o <<"upload_fileobj">>
        signed == stored \o <<"generate_presigned_url">>
        s3_error == "Failed to upload file to S3"
        unexpected == "An unexpected error occurred during file upload"
    IN  IF r.raised # "none" THEN Fail(unexpected, r.raised, parsed)
        ELSE IF ~HasField(data, FileKey) THEN Return(400, "No file provided", parsed)
        ELSE IF ~HasField(data, Payload) THEN Return(400, "No payload provided", parsed)
        ELSE IF data[FileKey].kind # "file" THEN Fail(unexpected, "TypeError", parsed)
        ELSE IF Lower(SplitExt(data[FileKey].filename)) \notin AllowedExtensions
        THEN Return(400, "File type not allowed", parsed)
        ELSE IF o.put = "ClientError" THEN Fail(s3_error, "ClientError", stored)
        ELSE IF o.put # "ok" THEN Fail(unexpected, "Exception", stored)
        ELSE IF o.presign = "ClientError" THEN Fail(s3_error, "ClientError", signed)
        ELSE IF o.presign # "ok" THEN Fail(unexpected, "Exception", signed)
        ELSE IF JsonLoads(data[Payload].text) = "JSONDecodeError"
        THEN Fail(unexpected, "JSONDecodeError", signed)
        ELSE IF ValidateChat(JsonLoads(data[Payload].text)) # "none"
        THEN Fail(unexpected, ValidateChat(JsonLoads(data[Payload].text)), signed)
        ELSE Return(200, "File uploaded successfully", signed \o <<"add_user_chat">>)

UploadRoute(e, o) == UploadSteps(ParseUpload(e), o)

\* not s3_client
ClientMissingNever(s3) == FALSE
ClientMissing(s3) == s3 = "None"

\* The routing chain, for a request with this path and method whose body
\* parsing ended in doc.
RouteChain(path, http_method, doc, e, s3, o) ==
    IF path = "absent" \/ http_method = "absent" THEN Raise("ValueError", <<>>)
    ELSE IF doc \in {"binascii.Error", "JSONDecodeError"} THEN Raise(doc, <<>>)
    ELSE IF IsLoginRoute(path, http_method) THEN LoginRoute(doc, o)
    ELSE IF IsChatRoute(path, http_method) THEN ChatRoute(doc, o)
    ELSE IF IsUploadRoute(path, http_method)
    THEN IF ClientMissing(s3) THEN Return(503, "S3 client is not available", <<>>)
         ELSE UploadRoute(e, o)
    ELSE IF IsIgnoredRoute(path) THEN Return(200, "OK", <<>>)
    ELSE Return(404, "Not Found", <<>>)

\* The body of the try block: reading the event, parsing the body, routing.
TryBlock(e, s3, o) == RouteChain(EventPath(e), EventMethod(e), ParseBody(e), e, s3, o)

\* The three except clauses, for a try block that ended in t.
ExceptClausesNoCatchAll(t) ==
    CASE t.exc = "none" -> t
      [] t.exc = "JSONDecodeError" -> Return(400, "Invalid JSON in request body", t.calls)
      [] t.exc = "ValidationError" -> Return(422, "Input validation failed", t.calls)
      [] OTHER -> t
ExceptClauses(t) ==
    CASE t.exc = "none" -> t
      [] t.exc = "JSONDecodeError" -> Return(400, "Invalid JSON in request body", t.calls)
      [] t.exc = "ValidationError" -> Return(422, "Input validation failed", t.calls)
      [] OTHER -> Fail("Internal server error", t.exc, t.calls)

\* lambda_handler(event, context): the preflight test, the try block and the
\* except clauses.
HandleEvent(e, s3, o) ==
    IF e.httpMethod = "OPTIONS" THEN Return(200, "CORS preflight OK", <<>>)
    ELSE ExceptClauses(TryBlock(e, s3, o))

-----------------------------------------------------------------------------
(* The events the model sends to lambda_handler, and what the collaborators  *)
(* do.                                                                       *)

Methods == {"GET", "POST", "OPTIONS", "PUT"}
Paths == {"/login", "/api/chat/ask", "/upload", "/", "/favicon.ico", "/healthz"}

\* The method and path of an event, in the REST shape (httpMethod, path), in
\* the HTTP API shape (requestContext.http.method, rawPath), or missing.
RequestLines ==
    {[httpMethod |-> m, ctxMethod |-> "absent", path |-> p, rawPath |-> "absent"] :
        m \in Methods, p \in Paths}
    \cup {[httpMethod |-> "absent", ctxMethod |-> m, path |-> "absent", rawPath |-> p] :
            m \in Methods, p \in Paths}
    \cup {[httpMethod |-> "absent", ctxMethod |-> "absent", path |-> "/login", rawPath |-> "absent"],
          [httpMethod |-> "POST", ctxMethod |-> "absent", path |-> "absent", rawPath |-> "absent"],
          [httpMethod |-> "absent", ctxMethod |-> "absent", path |-> "absent", rawPath |-> "absent"]}

EmptyForm == [ct |-> PlainCT, preamble |-> <<>>, parts |-> <<>>, closed |-> FALSE]

ChatPayload == TextPart(Payload, ChatDoc, TRUE)
UploadForm(ps) == [ct |-> PlainCT, preamble |-> <<>>, parts |-> ps, closed |-> TRUE]

\* The forms sent to /upload.
UploadForms ==
    {UploadForm(<<PdfFile, ChatPayload>>),
     UploadForm(<<ChatPayload, FilePart(FileKey, UpperPdf, PdfBytes, TRUE, FALSE, <<>>)>>),
     UploadForm(<<FilePart(FileKey, ResumeTxt, PdfBytes, TRUE, FALSE, <<>>), ChatPayload>>),
     UploadForm(<<FilePart(FileKey, DotPdf, PdfBytes, TRUE, FALSE, <<>>), ChatPayload>>),
     UploadForm(<<FilePart(FileKey, ResumeTxt, PdfBytes, TRUE, FALSE, <<>>)>>),
     UploadForm(<<ChatPayload>>),
     UploadForm(<<PdfFile>>),
     UploadForm(<<PdfFile, TextPart(Payload, <<>>, TRUE)>>),
     UploadForm(<<PdfFile, TextPart(Payload, NotJsonDoc, TRUE)>>),
     UploadForm(<<PdfFile, TextPart(Payload, EmptyDoc, TRUE)>>),
     UploadForm(<<FileNamedText, ChatPayload>>),
     UploadForm(<<PdfFile, BadUtf8Text, ChatPayload>>),
     [UploadForm(<<PdfFile, ChatPayload>>) EXCEPT !.ct.shape = "none"]}

\* The content type, body bytes and encoding flag of an event.
Contents ==
    {[contentType |-> ApplicationJson, body |-> d, form |-> EmptyForm] :
        d \in {ChatDoc, LoginDoc, EmptyDoc, ListDoc, WrongTypeDoc, NotJsonDoc}}
    \cup {[contentType |-> <<>>, body |-> d, form |-> EmptyForm] : d \in {ChatDoc, NotJsonDoc}}
    \cup {[contentType |-> RenderCT(f.ct), body |-> RenderBody(f), form |-> f] : f \in UploadForms}

Events ==
    {[httpMethod |-> l.httpMethod, ctxMethod |-> l.ctxMethod, path |-> l.path,
      rawPath |-> l.rawPath, contentType |-> c.contentType, body |-> c.body,
      form |-> c.form, b64 |-> b] :
        l \in RequestLines, c \in Contents, b \in {"no", "valid", "invalid"}}

NoEvent ==
    [httpMethod |-> "absent", ctxMethod |-> "absent", path |-> "absent",
     rawPath |-> "absent", contentType |-> <<>>, body |-> <<>>, form |-> EmptyForm,
     b64 |-> "no"]

\* What each collaborator does in a request: create_salesforce_lead,
\* handle_user_login, main_execution_flow, add_user_chat, upload_fileobj and
\* generate_presigned_url.
\* handle_user_login returns a response without a lead id ("ok"), one with
\* the lead id that the table holds ("stored_id"), or raises.
Outcomes ==
    [crm : {"ok", "raise"}, db : {"ok", "stored_id", "raise"}, rag : {"ok", "raise"},
     chat : {"ok", "raise"}, put : {"ok", "ClientError", "raise"},
     presign : {"ok", "ClientError", "raise"}]

\* The outcomes to tell apart for an event: those of the collaborators that
\* the route of its path can call; the others are fixed.
OutcomesFor(e) ==
    {o \in Outcomes :
        /\ EventPath(e) # "/login" => (o.crm = "ok" /\ o.db = "ok")
        /\ EventPath(e) # "/api/chat/ask" => o.rag = "ok"
        /\ EventPath(e) \notin {"/api/chat/ask", "/upload"} => o.chat = "ok"
        /\ EventPath(e) # "/upload" => (o.put = "ok" /\ o.presign = "ok")}

NoOutcomes ==
    [crm |-> "uncalled", db |-> "uncalled", rag |-> "uncalled", chat |-> "uncalled",
     put |-> "uncalled", presign |-> "uncalled"]

Called(done, name) == \E i \in 1..Len(done) : done[i] = name

\* The outcomes of the collaborators that were called.
Used(o, done) ==
    [crm |-> IF Called(done, "create_salesforce_lead") THEN o.crm ELSE "uncalled",
     db |-> IF Called(done, "handle_user_login") THEN o.db ELSE "uncalled",
     rag |-> IF Called(done, "main_execution_flow") THEN o.rag ELSE "uncalled",
     chat |-> IF Called(done, "add_user_chat") THEN o.chat ELSE "uncalled",
     put |-> IF Called(done, "upload_fileobj") THEN o.put ELSE "uncalled",
     presign |-> IF Called(done, "generate_presigned_url") THEN o.presign ELSE "uncalled"]

-----------------------------------------------------------------------------
(* database/update_users.py: handle_user_login and the table public.users.   *)
(* The table is the sequence of its rows; a row holds the email and the      *)
(* salesforce_lead_id (NULL is None).                                        *)

\* _fetch_existing_salesforce_lead_id(email): the salesforce_lead_id of the
\* first row with this email; None when there is no row, when the connection
\* could not be made, or when the query raised.
FetchExistingSalesforceLeadId(email, table, fetch) ==
    LET rows == SelectSeq(table, LAMBDA row : row.email = email)
    IN  IF fetch # "ok" \/ rows = <<>> THEN None ELSE rows[1].salesforce_lead_id

\* Step 1 and 2 of handle_user_login: the salesforce_lead_id of the payload,
\* or else the one fetched from the table, or else None.
DetermineLeadId(user_data, table, fetch) ==
    IF Truthy(user_data.salesforce_lead_id) THEN user_data.salesforce_lead_id
    ELSE IF Truthy(FetchExistingSalesforceLeadId(user_data.email.val, table, fetch))
    THEN FetchExistingSalesforceLeadId(user_data.email.val, table, fetch)
    ELSE None

\* COALESCE(a, b) of SQL.
Coalesce(a, b) == IF a.some THEN a ELSE b

\* The upsert statement: INSERT ... ON CONFLICT (email) DO UPDATE SET
\* salesforce_lead_id = COALESCE(%s, public.users.salesforce_lead_id).
UpsertOverwrite(table, email, id) ==
    IF \E i \in 1..Len(table) : table[i].email = email
    THEN [i \in 1..Len(table) |->
            IF table[i].email = email
            THEN [table[i] EXCEPT !.salesforce_lead_id = id]
            ELSE table[i]]
    ELSE Append(table, [email |-> email, salesforce_lead_id |-> id])
Upsert(table, email, id) ==
    IF \E i \in 1..Len(table) : table[i].email = email
    THEN [i \in 1..Len(table) |->
            IF table[i].email = email
            THEN [table[i] EXCEPT !.salesforce_lead_id = Coalesce(id, @)]
            ELSE table[i]]
    ELSE Append(table, [email |-> email, salesforce_lead_id |-> id])

\* What one try/except/finally block does with its connection, in order:
\* ConnectDB() raises ("unbuilt") and there is no object to close; or the
\* object is built and, conn being None ("noconn"), the block returns; or the
\* query runs and returns ("ok") or raises ("raise").  The finally clause
\* closes the object in every case where it was built.
ConnectionEventsNoFinally(conn, query, outcome) ==
    CASE outcome = "unbuilt" -> <<>>
      [] outcome = "noconn" -> <<[conn |-> conn, op |-> "ConnectDB"]>>
      [] outcome = "raise" -> <<[conn |-> conn, op |-> "ConnectDB"], [conn |-> conn, op |-> query]>>
      [] OTHER -> <<[conn |-> conn, op |-> "ConnectDB"], [conn |-> conn, op |-> query],
                    [conn |-> conn, op |-> "close_connection"]>>
ConnectionEvents(conn, query, outcome) ==
    CASE outcome = "unbuilt" -> <<>>
      [] outcome = "noconn" ->
            <<[conn |-> conn, op |-> "ConnectDB"], [conn |-> conn, op |-> "close_connection"]>>
      [] OTHER -> <<[conn |-> conn, op |-> "ConnectDB"], [conn |-> conn, op |-> query],
                    [conn |-> conn, op |-> "close_connection"]>>

\* The connection events of a call of handle_user_login that has an email:
\* those of the lookup, when the payload has no salesforce_lead_id, and then
\* those of the upsert.
LoginConnections(user_data, d) ==
    (IF Truthy(user_data.salesforce_lead_id) THEN <<>>
     ELSE ConnectionEvents("lookup", "fetch", d.fetch))
    \o ConnectionEvents("upsert", "insert", d.upsert)

\* handle_user_login(user_data) on this table, the database doing d: the
\* table afterwards, the status_code and status of the response, and the
\* connection events of the call.
HandleUserLoginNoEmailTest(user_data, table, d) ==
    IF d.upsert # "ok"
    THEN [users |-> table, status_code |-> 500, status |-> "failed",
          connections |-> LoginConnections(user_data, d)]
    ELSE [users |-> Upsert(table, user_data.email.val,
                           DetermineLeadId(user_data, table, d.fetch)),
          status_code |-> 200, status |-> "success",
          connections |-> LoginConnections(user_data, d)]
HandleUserLogin(user_data, table, d) ==
    IF ~Truthy(user_data.email)
    THEN [users |-> table, status_code |-> 400, status |-> "failed", connections |-> <<>>]
    ELSE IF d.upsert # "ok"
    THEN [users |-> table, status_code |-> 500, status |-> "failed",
          connections |-> LoginConnections(user_data, d)]
    ELSE [users |-> Upsert(table, user_data.email.val,
                           DetermineLeadId(user_data, table, d.fetch)),
          status_code |-> 200, status |-> "success",
          connections |-> LoginConnections(user_data, d)]

\* The arguments of handle_user_login in the model, and what the database
\* does in a call: the connection and query of the fetch, and those of the
\* upsert.
Emails == {None, Some(<<>>), Some(<<"a", "@", "x">>), Some(<<"b", "@", "x">>)}
LeadIds == {None, Some(<<"L", "1">>), Some(<<"L", "2">>)}
UserData == [email : Emails, salesforce_lead_id : LeadIds]
DbOutcomes ==
    [fetch : {"ok", "noconn", "raise", "unbuilt"}, upsert : {"ok", "noconn", "raise", "unbuilt"}]

NoLogin ==
    [user_data |-> [email |-> None, salesforce_lead_id |-> None],
     d |-> [fetch |-> "ok", upsert |-> "ok"], prior |-> <<>>, status_code |-> 0,
     status |-> "none", connections |-> <<>>]

-----------------------------------------------------------------------------
(* rag_pipeline.py: get_final_agent_response.  A message holds its type and  *)
(* its content, which is a string or a list of content blocks; an event of   *)
(* the stream is the list of the messages so far.                            *)

\* event["messages"][-1]
LastMessage(ev) == ev[Len(ev)]

\* One pass of the loop body: the content of the last message of the event is
\* appended when the message is of type "ai" and its content is a string.
AppendPart(parts, ev) ==
    IF LastMessage(ev).type = "ai" /\ LastMessage(ev).content.str
    THEN Append(parts, LastMessage(ev).content.text)
    ELSE parts

\* "".join(final_response_parts)
RECURSIVE JoinParts(_)
JoinParts(parts) ==
    IF parts = <<>> THEN <<>> ELSE Head(parts) \o JoinParts(Tail(parts))

\* The messages of the model: the user's query, AI messages whose content is
\* the empty string, a text, another text, or a list of blocks, and a tool
\* message.
Text(t) == [str |-> TRUE, text |-> t]
Blocks == [str |-> FALSE, text |-> <<>>]
HumanMessage == [type |-> "human", content |-> Text(<<"q">>)]
ToolMessage == [type |-> "tool", content |-> Text(<<"t">>)]
AIMessages ==
    {[type |-> "ai", content |-> c] : c \in {Text(<<>>), Text(<<"a">>), Text(<<"b">>), Blocks}}

\* The runs of the agent, of up to MaxMessages messages: the query, then the
\* AI message of each turn of the model, followed by the tool messages of the
\* calls it asked for when it asked for some; the run ends with the AI message
\* that asked for none.
IsRun(r) ==
    /\ Len(r) >= 2
    /\ r[1] = HumanMessage
    /\ r[2].type = "ai"
    /\ r[Len(r)].type = "ai"
    /\ \A i \in 2..(Len(r) - 1) :
          /\ r[i].type # "human"
          /\ r[i].type = "ai" => r[i + 1].type = "tool"

Runs ==
    {r \in {<<HumanMessage>> \o t : t \in SeqsUpTo(AIMessages \cup {ToolMessage}, MaxMessages - 1)} :
        IsRun(r)}

\* The stream of a run in stream_mode "values": one event per step of the
\* graph, each holding the messages so far.  The step of the model adds one
\* AI message; the step of the tools adds the tool messages of its calls, one
\* event for all of them (batched) or one event each.
StreamOf(run, batched) ==
    LET lengths == {k \in 1..Len(run) :
                        ~(batched /\ k < Len(run) /\ run[k].type = "tool" /\ run[k + 1].type = "tool")}
        Nth(n) == CHOOSE k \in lengths : Cardinality({j \in lengths : j <= k}) = n
    IN  [n \in 1..Cardinality(lengths) |-> SubSeq(run, 1, Nth(n))]

Streams == {StreamOf(run, batched) : run \in Runs, batched \in BOOLEAN}

NoAgentRun ==
    /\ stream = <<>>
    /\ consumed = 0
    /\ final_response_parts = <<>>
    /\ final_answer = <<>>

-----------------------------------------------------------------------------
(* The state machine: a call of parse_multipart_form_data. *)

Init ==
    /\ form \in Forms
    /\ content_type = RenderCT(form.ct)
    /\ body = RenderBody(form)
    /\ pc = "call"
    /\ result = EmptyDict
    /\ raised = "none"
    /\ scanned = FALSE
    /\ event = NoEvent
    /\ s3_client = "client"
    /\ response = NoResponse
    /\ calls = <<>>
    /\ outcomes = NoOutcomes
    /\ users = <<>>
    /\ login = NoLogin
    /\ NoAgentRun

\* parse_multipart_form_data(body, content_type) runs to its return or raise.
Decode ==
    /\ pc = "call"
    /\ LET r == ParseMultipartFormData(body, content_type)
       IN  /\ pc' = IF r.raised = "none" THEN "returned" ELSE "raised"
           /\ result' = r.result
           /\ raised' = r.raised
           /\ scanned' = r.scanned
    /\ UNCHANGED <<content_type, body, form, event, s3_client, response, calls, outcomes,
                   users, login, stream, consumed, final_response_parts, final_answer>>

Next == Decode

Spec == Init /\ [][Next]_vars

-----------------------------------------------------------------------------
(* The state machine: a request handled by lambda_handler. *)

InitHandler ==
    /\ event \in Events
    /\ s3_client \in {"client", "None"}
    /\ content_type = event.contentType
    /\ body = event.body
    /\ form = event.form
    /\ pc = "request"
    /\ result = EmptyDict
    /\ raised = "none"
    /\ scanned = FALSE
    /\ response = NoResponse
    /\ calls = <<>>
    /\ outcomes = NoOutcomes
    /\ users = <<>>
    /\ login = NoLogin
    /\ NoAgentRun

\* The call of parse_multipart_form_data that a request made ended in r.
Parsed(r) ==
    /\ result' = r.result
    /\ raised' = r.raised
    /\ scanned' = r.scanned

\* The handler ended in h, the collaborators doing o.
Responded(h, o) ==
    /\ response' = h.response
    /\ calls' = h.calls
    /\ outcomes' = Used(o, h.calls)
    /\ IF Called(h.calls, "parse_multipart_form_data")
       THEN Parsed(ParseUpload(event))
       ELSE UNCHANGED <<result, raised, scanned>>

\* lambda_handler(event, context) runs to its return.
LambdaHandler ==
    /\ pc = "request"
    /\ \E o \in OutcomesFor(event) : Responded(HandleEvent(event, s3_client, o), o)
    /\ pc' = "responded"
    /\ UNCHANGED <<content_type, body, form, event, s3_client, users, login,
                   stream, consumed, final_response_parts, final_answer>>

NextHandler == LambdaHandler

SpecHandler == InitHandler /\ [][NextHandler]_vars

-----------------------------------------------------------------------------
(* The state machine: logins handled by handle_user_login, one after the     *)
(* other, on one table.                                                      *)

InitUsers ==
    /\ users = <<>>
    /\ login = NoLogin
    /\ NoAgentRun
    /\ pc = "logins"
    /\ event = NoEvent
    /\ s3_client = "client"
    /\ form = EmptyForm
    /\ content_type = <<>>
    /\ body = <<>>
    /\ result = EmptyDict
    /\ raised = "none"
    /\ scanned = FALSE
    /\ response = NoResponse
    /\ calls = <<>>
    /\ outcomes = NoOutcomes

\* The call handle_user_login(user_data) ended in h.
LoggedIn(user_data, d, h) ==
    /\ users' = h.users
    /\ login' = [user_data |-> user_data, d |-> d, prior |-> users,
                 status_code |-> h.status_code, status |-> h.status,
                 connections |-> h.connections]

\* handle_user_login(user_data) runs to its return.
HandleUserLoginCall ==
    /\ pc = "logins"
    /\ \E user_data \in UserData, d \in DbOutcomes :
          LoggedIn(user_data, d, HandleUserLogin(user_data, users, d))
    /\ UNCHANGED <<content_type, body, form, pc, result, raised, scanned, event,
                   s3_client, response, calls, outcomes,
                   stream, consumed, final_response_parts, final_answer>>

NextUsers == HandleUserLoginCall

SpecUsers == InitUsers /\ [][NextUsers]_vars

-----------------------------------------------------------------------------
(* The state machine: a call of get_final_agent_response. *)

InitAgent ==
    /\ stream \in Streams
    /\ consumed = 0
    /\ final_response_parts = <<>>
    /\ final_answer = <<>>
    /\ pc = "stream"
    /\ users = <<>>
    /\ login = NoLogin
    /\ event = NoEvent
    /\ s3_client = "client"
    /\ form = EmptyForm
    /\ content_type = <<>>
    /\ body = <<>>
    /\ result = EmptyDict
    /\ raised = "none"
    /\ scanned = FALSE
    /\ response = NoResponse
    /\ calls = <<>>
    /\ outcomes = NoOutcomes

\* One iteration of the loop over agent.stream(...).
StreamEvent ==
    /\ pc = "stream"
    /\ consumed < Len(stream)
    /\ consumed' = consumed + 1
    /\ final_response_parts' = AppendPart(final_response_parts, stream[consumed + 1])
    /\ UNCHANGED <<content_type, body, form, pc, result, raised, scanned, event, s3_client,
                   response, calls, outcomes, users, login, stream, final_answer>>

\* The stream is exhausted: the parts are joined and returned.
ReturnFinalAnswer ==
    /\ pc = "stream"
    /\ consumed = Len(stream)
    /\ final_answer' = JoinParts(final_response_parts)
    /\ pc' = "answered"
    /\ UNCHANGED <<content_type, body, form, result, raised, scanned, event, s3_client,
                   response, calls, outcomes, users, login, stream, consumed,
                   final_response_parts>>

NextAgent == StreamEvent \/ ReturnFinalAnswer

SpecAgent == InitAgent /\ [][NextAgent]_vars

-----------------------------------------------------------------------------
(* What a form declares, read off the form and not off the bytes. *)

\* A regular part that carries a filename.
IsFilePart(p) == p.kind = "part" /\ p.hasDisp /\ p.filename # <<>>

\* A regular part that carries a name and no filename (an empty filename is
\* none).
IsTextPart(p) == p.kind = "part" /\ p.hasDisp /\ p.filename = <<>> /\ p.name # <<>>

\* A regular part that carries neither, or has no Content-Disposition at all.
IsAnonymousPart(p) ==
    p.kind = "part" /\ (~p.hasDisp \/ (p.name = <<>> /\ p.filename = <<>>))

\* The Content-Type carries a non-empty boundary token.
CarriesBoundary(ct) == ct.shape \in {"plain", "charset"} /\ ct.token # <<>>

\* A body as RFC 7578 writes it: no preamble, CR LF line ends, every part with
\* its Content-Disposition, no delimiter inside a content, the closing marker.
WellFormed(f) ==
    /\ CarriesBoundary(f.ct)
    /\ f.preamble = <<>>
    /\ f.closed
    /\ \A i \in 1..Len(f.parts) :
          /\ IsFilePart(f.parts[i]) \/ IsTextPart(f.parts[i])
          /\ ~f.parts[i].lf
          /\ ~Contains(f.parts[i].content, Dashes \o f.ct.token)

\* One file part and one text part, in either order; the text is UTF-8 text
\* and is not named 'file'.
OneFileOneText(f) ==
    /\ WellFormed(f)
    /\ Len(f.parts) = 2
    /\ \E i, j \in 1..2 :
          /\ IsFilePart(f.parts[i])
          /\ IsTextPart(f.parts[j])
          /\ f.parts[j].name # FileKey
          /\ Utf8Valid(f.parts[j].content)

TheFilePart(f) == f.parts[CHOOSE i \in 1..2 : IsFilePart(f.parts[i])]
TheTextPart(f) == f.parts[CHOOSE j \in 1..2 : IsTextPart(f.parts[j])]

-----------------------------------------------------------------------------
(* The claims. *)

\* C1: for every well-formed body with one file part and one text part, the
\* call returns, result['file'].content is the file part's bytes exactly and
\* the text entry is the text part's value exactly.
C1_RoundTrip ==
    (pc # "call" /\ OneFileOneText(form)) =>
        /\ pc = "returned"
        /\ FileKey \in DOMAIN result
        /\ result[FileKey].kind = "file"
        /\ result[FileKey].content = TheFilePart(form).content
        /\ TheTextPart(form).name \in DOMAIN result
        /\ result[TheTextPart(form).name] =
              [kind |-> "text", text |-> Utf8Decode(TheTextPart(form).content)]

\* C2: for every Content-Type that carries a non-empty boundary token and
\* every body, the call returns a mapping and raises nothing.
C2_OnlyMissingBoundaryRaises ==
    (pc # "call" /\ CarriesBoundary(form.ct)) => (pc = "returned" /\ raised = "none")

\* The Content-Type has no boundary token: no segment starts with 'boundary=',
\* or the token of the first one that does is empty.
LacksBoundary(ct) == ct.shape \in {"none", "other", "upper", "inner", "empty", "emptyfirst"}

\* C3: when the Content-Type has no ';'-separated, trimmed segment that
\* starts with 'boundary=', or the token after 'boundary=' is empty, the call
\* raises the missing-boundary error, whatever other segments are present, and
\* the body has not been split.
C3_MissingBoundaryRaises ==
    (pc # "call" /\ LacksBoundary(form.ct)) =>
        (pc = "raised" /\ raised = "ValueError" /\ ~scanned /\ result = EmptyDict)

\* C3 happens: a call with a charset segment, no boundary segment and a body
\* of two parts has raised.
C3_Witness ==
    /\ pc = "raised"
    /\ raised = "ValueError"
    /\ form.ct.shape = "other"
    /\ Len(form.parts) = 2


\* What the call did, and what a call on other arguments does.
Observed == [raised |-> raised, result |-> result]
Outcome(b, ct) ==
    LET r == ParseMultipartFormData(b, ct)
    IN  [raised |-> r.raised, result |-> r.result]

\* s without its j-th element.
Without(s, j) == SubSeq(s, 1, j - 1) \o SubSeq(s, j + 1, Len(s))

\* delimiter.join(segs)
RECURSIVE Join(_, _)
Join(segs, delimiter) ==
    IF segs = <<>> THEN <<>>
    ELSE IF Len(segs) = 1 THEN segs[1]
    ELSE segs[1] \o delimiter \o Join(Tail(segs), delimiter)

\* The segments the delimiter of the form cuts the body into.
Segments == SplitBody(body, form.ct.token)

\* The body with its j-th segment, and one delimiter, taken out.
BodyWithoutSegment(j) == Join(Without(Segments, j), Dashes \o form.ct.token)

\* The form with its i-th part taken out.
FormWithoutPart(f, i) == [f EXCEPT !.parts = Without(f.parts, i)]

\* C4, as stated: a segment that does not contain CR LF CR LF contributes no
\* entry, and the call's outcome is that of the body without the segment.
C4_NoCrlfCrlfSkipped ==
    (pc # "call" /\ scanned) =>
        \A j \in 1..Len(Segments) :
            ~Contains(Segments[j], CRLFCRLF) =>
                Observed = Outcome(BodyWithoutSegment(j), content_type)

\* C4, amended: a segment that contains neither CR LF CR LF nor LF LF
\* contributes no entry, and the call's outcome is that of the body without
\* the segment.
C4_NoSeparatorSkipped ==
    (pc # "call" /\ scanned) =>
        \A j \in 1..Len(Segments) :
            (~Contains(Segments[j], CRLFCRLF) /\ ~Contains(Segments[j], LFLF)) =>
                Observed = Outcome(BodyWithoutSegment(j), content_type)

\* C4 happens: a body with a segment that has header text and no blank line,
\* next to a part that is decoded.
C4_Witness ==
    /\ pc = "returned"
    /\ \E j \in 1..Len(Segments) :
          /\ ~Contains(Segments[j], CRLFCRLF)
          /\ ~Contains(Segments[j], LFLF)
          /\ Contains(Segments[j], NameEq)
    /\ DOMAIN result # {}

\* C5: a part whose Content-Disposition has neither name= nor filename=, or
\* that has no Content-Disposition, adds no key: the call's outcome is that of
\* the same form without the part.
C5_AnonymousPartDropped ==
    (pc # "call" /\ scanned) =>
        \A i \in 1..Len(form.parts) :
            IsAnonymousPart(form.parts[i]) =>
                Observed = Outcome(RenderBody(FormWithoutPart(form, i)), content_type)

\* C5 happens: a body with an anonymous part and a sibling that is decoded.
C5_Witness ==
    /\ pc = "returned"
    /\ \E i \in 1..Len(form.parts) : IsAnonymousPart(form.parts[i]) /\ form.parts[i].hasDisp
    /\ DOMAIN result # {}

\* The key a regular part declares: 'file' with a filename, else its name.
DeclaredKey(p) == IF p.filename # <<>> THEN FileKey ELSE p.name

\* The keys the parts of a form declare.
DeclaredKeys(f) ==
    {DeclaredKey(f.parts[i]) :
        i \in {k \in 1..Len(f.parts) : IsFilePart(f.parts[k]) \/ IsTextPart(f.parts[k])}}

\* C6: every key of the result comes from a part of the form that has headers
\* and a name or a filename; the preamble, the empty and whitespace-only
\* segments and the closing marker add none.
C6_KeysComeFromParts ==
    pc = "returned" => DOMAIN result \subseteq DeclaredKeys(form)


\* The form with the quoting of its boundary, or of the name and filename of
\* its i-th part, switched: quoted becomes unquoted and the reverse.
RequoteBoundary(f) == [f EXCEPT !.ct.quoted = ~@]
RequotePart(f, i) == [f EXCEPT !.parts[i].quoted = ~@]
Requoted(f) == {RequoteBoundary(f)} \cup {RequotePart(f, i) : i \in 1..Len(f.parts)}

\* C7: a request that writes its boundary, a field name or a filename in
\* double quotes has the outcome of the request that writes it unquoted.
C7_QuoteInsensitive ==
    pc # "call" =>
        \A g \in Requoted(form) : Observed = Outcome(RenderBody(g), RenderCT(g.ct))

\* C7 happens: a quoted boundary, a quoted filename with a space in it, and
\* the file is decoded under that filename.
C7_Witness ==
    /\ pc = "returned"
    /\ form.ct.quoted
    /\ \E i \in 1..Len(form.parts) :
          /\ IsFilePart(form.parts[i])
          /\ form.parts[i].quoted
          /\ form.parts[i].filename = MyDocPdf
    /\ FileKey \in DOMAIN result
    /\ result[FileKey].kind = "file"
    /\ result[FileKey].filename = MyDocPdf

\* The content type a part declares: the value of its Content-Type line, or
\* the default.
DeclaredContentType(p) ==
    IF p.ctLine = <<>> THEN OctetStream
    ELSE Strip(SplitOnce(p.ctLine, <<":">>)[2], Whitespace)

\* The i-th part decides its key: it declares one and no later part declares
\* the same.
Decides(f, i) ==
    /\ IsFilePart(f.parts[i]) \/ IsTextPart(f.parts[i])
    /\ \A k \in (i + 1)..Len(f.parts) :
          (IsFilePart(f.parts[k]) \/ IsTextPart(f.parts[k])) =>
              DeclaredKey(f.parts[k]) # DeclaredKey(f.parts[i])

\* C8: a part with a (non-empty) filename is stored under 'file', whatever its name and
\* whichever of name= and filename= comes first, as a file record with its
\* filename and with its Content-Type header or 'application/octet-stream';
\* a part with a name and no filename is stored as text under its name.
C8_ClassificationPriority ==
    pc = "returned" =>
        \A i \in 1..Len(form.parts) :
            Decides(form, i) =>
                LET p == form.parts[i]
                IN  IF IsFilePart(p)
                    THEN /\ FileKey \in DOMAIN result
                         /\ result[FileKey].kind = "file"
                         /\ result[FileKey].filename = p.filename
                         /\ result[FileKey].content_type = DeclaredContentType(p)
                    ELSE /\ p.name \in DOMAIN result
                         /\ result[p.name].kind = "text"

\* C8 happens: a part that writes filename= before name=, is named 'up' and
\* has a content-TYPE line, is stored under 'file' with that content type.
C8_Witness ==
    /\ pc = "returned"
    /\ \E i \in 1..Len(form.parts) :
          /\ Decides(form, i)
          /\ IsFilePart(form.parts[i])
          /\ form.parts[i].fnFirst
          /\ form.parts[i].name # FileKey
          /\ form.parts[i].ctLine # <<>>
    /\ \E i \in 1..Len(form.parts) : IsTextPart(form.parts[i])
    /\ FileKey \in DOMAIN result
    /\ result[FileKey].content_type = ImagePng

\* The body writes name=k, quoted or not.
NameWritten(k) ==
    \E q \in BOOLEAN : Contains(body, NameEq \o Quoted(Utf8Encode(k), q))

\* C9: at most one entry of the result is a file record, a file record is
\* only under the key 'file', and every other entry is text under a name the
\* body declares.
C9_DecodedFormInvariant ==
    pc = "returned" =>
        /\ Cardinality({k \in DOMAIN result : result[k].kind = "file"}) <= 1
        /\ \A k \in DOMAIN result :
              IF result[k].kind = "file" THEN k = FileKey
              ELSE result[k].kind = "text" /\ NameWritten(k)

\* C9 happens: two file parts with different names in one body, and one file
\* record in the result.
C9_Witness ==
    /\ pc = "returned"
    /\ \E i, j \in 1..Len(form.parts) :
          /\ i # j
          /\ IsFilePart(form.parts[i])
          /\ IsFilePart(form.parts[j])
          /\ form.parts[i].name # form.parts[j].name
    /\ FileKey \in DOMAIN result
    /\ result[FileKey].kind = "file"


\* The request is none of POST /login, POST /api/chat/ask, POST /upload, is
\* no OPTIONS request, has a path and a method, and its body parses.
Unrouted(e) ==
    /\ EventPath(e) # "absent"
    /\ EventMethod(e) \notin {"absent", "OPTIONS"}
    /\ ~(EventMethod(e) = "POST" /\ EventPath(e) \in {"/login", "/api/chat/ask", "/upload"})
    /\ e.b64 # "invalid"
    /\ Contains(e.contentType, MultipartFormData) \/ JsonLoads(e.body) # "JSONDecodeError"

\* C10, as stated: every such request is answered with 404, the paths '/' and
\* '/favicon.ico' included.
C10_UnroutedIs404 ==
    (pc = "responded" /\ Unrouted(event)) => response.statusCode = 404

\* C10, amended: every such request is answered with 404, except on the paths
\* '/' and '/favicon.ico', which are answered with 200 whatever the method;
\* no collaborator is called.
C10_UnroutedIs404OrIgnored ==
    (pc = "responded" /\ Unrouted(event)) =>
        /\ response.statusCode = IF EventPath(event) \in {"/", "/favicon.ico"} THEN 200 ELSE 404
        /\ calls = <<>>

\* C10 happens: a GET on /login with a valid login body is answered 404.
C10_Witness ==
    /\ pc = "responded"
    /\ Unrouted(event)
    /\ EventPath(event) = "/login"
    /\ EventMethod(event) = "GET"
    /\ event.body = LoginDoc
    /\ response.statusCode = 404

-----------------------------------------------------------------------------
(* Claims about lambda_handler. *)

\* C11: an OPTIONS request, whether its method is read from httpMethod or
\* from requestContext.http.method, is answered with 200 'CORS preflight OK',
\* and no collaborator (decoder, CRM, database, object store, retrieval) is
\* called.
C11_OptionsIsPreflight ==
    (pc = "responded" /\ EventMethod(event) = "OPTIONS") =>
        /\ response = Response(200, "CORS preflight OK")
        /\ calls = <<>>

\* The request is a POST on /upload.
IsUploadRequest(e) == EventMethod(e) = "POST" /\ EventPath(e) = "/upload"

\* The handler decoded the form of the request.
FormDecoded == Called(calls, "parse_multipart_form_data") /\ raised = "none"

\* The extensions that the specification lists as allowed.
ListedExtensions ==
    {<<".", "p", "d", "f">>, <<".", "d", "o", "c", "x">>, <<".", "j", "p", "e", "g">>,
     <<".", "j", "p", "g">>, <<".", "p", "n", "g">>}

\* The form of the request holds a file part whose extension, in lower case,
\* is not a listed one.
SendsUnlistedFile(e) ==
    \E i \in 1..Len(e.form.parts) :
        /\ IsFilePart(e.form.parts[i])
        /\ Lower(SplitExt(e.form.parts[i].filename)) \notin ListedExtensions

\* C12: a POST /upload whose decoded form holds a file with an extension that
\* is not listed is answered with 400, and no put, presign or chat-record
\* insert happens in it; a put happens only when the decoded form holds a
\* file record and a non-empty payload and the extension is a listed one.
C12_UnlistedExtensionIs400 ==
    /\ (pc = "responded" /\ IsUploadRequest(event) /\ FormDecoded /\ SendsUnlistedFile(event)) =>
          /\ response.statusCode = 400
          /\ ~Called(calls, "upload_fileobj")
          /\ ~Called(calls, "generate_presigned_url")
          /\ ~Called(calls, "add_user_chat")
    /\ (pc = "responded" /\ Called(calls, "upload_fileobj")) =>
          /\ IsUploadRequest(event)
          /\ FormDecoded
          /\ FileKey \in DOMAIN result
          /\ result[FileKey].kind = "file"
          /\ Lower(SplitExt(result[FileKey].filename)) \in ListedExtensions
          /\ Payload \in DOMAIN result
          /\ result[Payload].kind = "text"
          /\ result[Payload].text # <<>>

\* C12 happens: resume.txt sent with a valid payload is answered with 400
\* 'File type not allowed'.
C12_Witness ==
    /\ pc = "responded"
    /\ IsUploadRequest(event)
    /\ \E i \in 1..Len(event.form.parts) : event.form.parts[i].filename = ResumeTxt
    /\ \E i \in 1..Len(event.form.parts) : event.form.parts[i] = ChatPayload
    /\ response = Response(400, "File type not allowed")

\* The request has a path and a method, and its body bytes could be read.
Readable(e) ==
    /\ EventPath(e) # "absent"
    /\ EventMethod(e) # "absent"
    /\ e.b64 # "invalid"

\* The request is a POST on one of the two routes that read a JSON body.
IsJsonRequest(e) == EventMethod(e) = "POST" /\ EventPath(e) \in {"/login", "/api/chat/ask"}

\* The file of the decoded form was stored and its URL presigned.
StoredAndSigned ==
    /\ Called(calls, "generate_presigned_url")
    /\ outcomes.put = "ok"
    /\ outcomes.presign = "ok"

\* The payload field of the decoded form, <<>> when there is none.
PayloadField ==
    IF Payload \in DOMAIN result /\ result[Payload].kind = "text"
    THEN result[Payload].text
    ELSE <<>>

\* C13: malformed JSON is answered with 400 on every route: in the body of a
\* request to a JSON route, and in the payload field of a POST /upload whose
\* file was accepted, stored and presigned.
C13_MalformedJsonIs400 ==
    /\ (/\ pc = "responded"
        /\ Readable(event)
        /\ IsJsonRequest(event)
        /\ ~Contains(event.contentType, MultipartFormData)
        /\ JsonLoads(event.body) = "JSONDecodeError") => response.statusCode = 400
    /\ (/\ pc = "responded"
        /\ IsUploadRequest(event)
        /\ FormDecoded
        /\ StoredAndSigned
        /\ JsonLoads(PayloadField) = "JSONDecodeError") => response.statusCode = 400

\* The JSON documents that are objects with a required key missing or of the
\* wrong type: for UserLoginData, and for QueryChatModel.
FailsLoginSchema == {"empty", "wrongtype"}
FailsChatSchema == {"login", "empty", "wrongtype"}

\* C14: a schema validation failure is answered with 422 on every route: for
\* the body of POST /login and of POST /api/chat/ask, and for the payload
\* field of a POST /upload whose file was accepted, stored and presigned.
C14_ValidationFailureIs422 ==
    /\ (/\ pc = "responded"
        /\ Readable(event)
        /\ IsJsonRequest(event)
        /\ ~Contains(event.contentType, MultipartFormData)
        /\ JsonLoads(event.body) \in
              (IF EventPath(event) = "/login" THEN FailsLoginSchema ELSE FailsChatSchema))
          => response.statusCode = 422
    /\ (/\ pc = "responded"
        /\ IsUploadRequest(event)
        /\ FormDecoded
        /\ StoredAndSigned
        /\ JsonLoads(PayloadField) \in FailsChatSchema) => response.statusCode = 422

\* The request is a POST /login whose body is JSON that satisfies
\* UserLoginData.
IsValidLogin(e) ==
    /\ Readable(e)
    /\ EventMethod(e) = "POST"
    /\ EventPath(e) = "/login"
    /\ ~Contains(e.contentType, MultipartFormData)
    /\ ValidateLogin(JsonLoads(e.body)) = "none"

\* C15: a valid POST /login is answered with 200 whether create_salesforce_lead
\* and handle_user_login succeed or raise, and handle_user_login is called
\* also after create_salesforce_lead raised; a POST /upload whose file was
\* stored and presigned and whose payload is valid is answered with 200
\* whether add_user_chat succeeds or raises.
C15_BestEffortSideEffects ==
    /\ (pc = "responded" /\ IsValidLogin(event)) =>
          /\ response.statusCode = 200
          /\ outcomes.crm # "uncalled"
          /\ outcomes.db # "uncalled"
    /\ (/\ pc = "responded"
        /\ IsUploadRequest(event)
        /\ FormDecoded
        /\ StoredAndSigned
        /\ ValidateChat(JsonLoads(PayloadField)) = "none") =>
          /\ response.statusCode = 200
          /\ outcomes.chat \in {"ok", "raise"}

\* C15 happens: a login in which both create_salesforce_lead and
\* handle_user_login raised is answered with 200.
C15_Witness ==
    /\ pc = "responded"
    /\ IsValidLogin(event)
    /\ outcomes.crm = "raise"
    /\ outcomes.db = "raise"
    /\ response.statusCode = 200

-----------------------------------------------------------------------------
(* Claims about handle_user_login. *)

\* The salesforce_lead_id stored for this email, None when the table has no
\* row for it.
StoredLeadId(table, email) ==
    IF \E i \in 1..Len(table) : table[i].email = email
    THEN table[CHOOSE i \in 1..Len(table) : table[i].email = email].salesforce_lead_id
    ELSE None

\* The last call of handle_user_login had an email and ran its upsert
\* statement.
Upserted == Truthy(login.user_data.email) /\ login.d.upsert = "ok"

\* C16: over any sequence of logins, the table holds at most one row per
\* email; after a login whose upsert ran, the salesforce_lead_id stored for its
\* email is the id the login supplied when that is not null, and else the id
\* stored before the login; no login that supplies no id replaces a stored id
\* by null.
C16_UpsertKeepsLeadId ==
    /\ \A i, j \in 1..Len(users) : users[i].email = users[j].email => i = j
    /\ Upserted =>
          StoredLeadId(users, login.user_data.email.val) =
              IF login.user_data.salesforce_lead_id.some
              THEN login.user_data.salesforce_lead_id
              ELSE StoredLeadId(login.prior, login.user_data.email.val)
    /\ \A i \in 1..Len(login.prior) :
          (login.prior[i].salesforce_lead_id.some /\ ~login.user_data.salesforce_lead_id.some) =>
              StoredLeadId(users, login.prior[i].email) = login.prior[i].salesforce_lead_id

\* C16 happens: a login without a lead id whose fetch of the stored id failed
\* ran its upsert on a row that held an id, and the row still holds it.
C16_Witness ==
    /\ Upserted
    /\ ~login.user_data.salesforce_lead_id.some
    /\ login.d.fetch = "raise"
    /\ StoredLeadId(login.prior, login.user_data.email.val) = Some(<<"L", "1">>)
    /\ StoredLeadId(users, login.user_data.email.val) = Some(<<"L", "1">>)
    /\ Len(users) = 2

-----------------------------------------------------------------------------
(* Claims about the /upload route. *)

\* The decoded form holds a file part.
HasFilePart == \E k \in DOMAIN result : result[k].kind = "file"

\* C17: a POST /upload whose decoded form has no file part is answered with
\* 400 'No file provided'; one whose decoded form has a file part and no
\* payload field, or an empty one, is answered with 400 'No payload provided';
\* neither reaches the object store.
C17_MissingFieldIs400 ==
    (pc = "responded" /\ IsUploadRequest(event) /\ FormDecoded) =>
        /\ ~HasFilePart =>
              /\ response = Response(400, "No file provided")
              /\ ~Called(calls, "upload_fileobj")
        /\ (HasFilePart /\ PayloadField = <<>>) =>
              /\ response = Response(400, "No payload provided")
              /\ ~Called(calls, "upload_fileobj")

\* The body of the request could be parsed: as multipart bytes, or as JSON.
Parseable(e) ==
    /\ Readable(e)
    /\ Contains(e.contentType, MultipartFormData) \/ JsonLoads(e.body) # "JSONDecodeError"

\* C18: without an object-store client, every POST /upload whose request
\* could be parsed is answered with 503, the form is not decoded and no
\* collaborator is called; with a client, a put or a presign that fails is
\* answered with 500 and no chat record is inserted.
C18_StoreUnavailableOrFailing ==
    /\ (/\ pc = "responded"
        /\ IsUploadRequest(event)
        /\ Parseable(event)
        /\ s3_client = "None") =>
          /\ response = Response(503, "S3 client is not available")
          /\ calls = <<>>
    /\ (pc = "responded" /\ (outcomes.put \in {"ClientError", "raise"}
                             \/ outcomes.presign \in {"ClientError", "raise"})) =>
          /\ s3_client = "client"
          /\ response.statusCode = 500
          /\ ~Called(calls, "add_user_chat")

\* C18 happens: an upload with an accepted file and a valid payload, sent
\* when there is no client, is answered with 503.
C18_Witness ==
    /\ pc = "responded"
    /\ IsUploadRequest(event)
    /\ s3_client = "None"
    /\ event.form = UploadForm(<<PdfFile, ChatPayload>>)
    /\ event.b64 = "no"
    /\ response.statusCode = 503

-----------------------------------------------------------------------------
(* Claims about the except clauses of lambda_handler. *)

StatusCodes == {200, 400, 404, 422, 500, 503}

\* The request is a POST /upload that reaches the decoder with a Content-Type
\* that carries no boundary.
UploadLacksBoundary(e) ==
    /\ IsUploadRequest(e)
    /\ Parseable(e)
    /\ s3_client = "client"
    /\ ~Truthy(ExtractBoundary(e.contentType))

\* C19: every event is answered with a response whose status is one of 200,
\* 400, 404, 422, 500, 503; a response has status 500 exactly when its body
\* carries the message of an exception; a request without path or method, an
\* upload without boundary and a retrieval pipeline that raises are answered
\* with 500 and the message of that exception.
C19_NoExceptionEscapes ==
    pc = "responded" =>
        /\ response.statusCode \in StatusCodes
        /\ response.statusCode = 500 <=> response.details # "none"
        /\ (event.httpMethod # "OPTIONS"
            /\ (EventPath(event) = "absent" \/ EventMethod(event) = "absent")) =>
              response = [Response(500, "Internal server error") EXCEPT !.details = "ValueError"]
        /\ UploadLacksBoundary(event) =>
              /\ response.statusCode = 500
              /\ response.details = "ValueError"
        /\ outcomes.rag = "raise" =>
              response = [Response(500, "Internal server error") EXCEPT !.details = "Exception"]

\* C19 happens: a valid chat request whose retrieval pipeline raised is
\* answered with 500.
C19_Witness ==
    /\ pc = "responded"
    /\ EventPath(event) = "/api/chat/ask"
    /\ event.body = ChatDoc
    /\ outcomes.rag = "raise"
    /\ response.statusCode = 500
    /\ response.details = "Exception"

\* The decoded form holds a file record whose extension is a listed one, and
\* a payload field that is not empty and is not JSON that satisfies
\* QueryChatModel.
AcceptedFileInvalidPayload ==
    /\ FileKey \in DOMAIN result
    /\ result[FileKey].kind = "file"
    /\ Lower(SplitExt(result[FileKey].filename)) \in ListedExtensions
    /\ PayloadField # <<>>
    /\ ValidateChat(JsonLoads(PayloadField)) # "none"

\* C20: in a POST /upload with an accepted file and an invalid payload the
\* file is put in the store all the same; when the put and the presign
\* succeed the answer is 500, with the object stored and no chat record
\* inserted.  After a successful put, the answer is 200 unless the presign
\* failed or the payload is invalid.
C20_PayloadParsedAfterPut ==
    /\ (pc = "responded" /\ IsUploadRequest(event) /\ FormDecoded /\ AcceptedFileInvalidPayload) =>
          /\ Called(calls, "upload_fileobj")
          /\ ~Called(calls, "add_user_chat")
          /\ (outcomes.put = "ok" /\ outcomes.presign = "ok") =>
                /\ response.statusCode = 500
                /\ response.details \in {"JSONDecodeError", "ValidationError", "TypeError"}
    /\ (pc = "responded" /\ outcomes.put = "ok" /\ response.statusCode # 200) =>
          \/ outcomes.presign \in {"ClientError", "raise"}
          \/ ValidateChat(JsonLoads(PayloadField)) # "none"

\* C20 happens: a.pdf sent with a payload that is not JSON was stored and
\* presigned, and the answer is 500.
C20_Witness ==
    /\ pc = "responded"
    /\ IsUploadRequest(event)
    /\ event.form = UploadForm(<<PdfFile, TextPart(Payload, NotJsonDoc, TRUE)>>)
    /\ calls = <<"parse_multipart_form_data", "upload_fileobj", "generate_presigned_url">>
    /\ outcomes.put = "ok"
    /\ outcomes.presign = "ok"
    /\ response.statusCode = 500

-----------------------------------------------------------------------------
(* Claims about the response of /login and about handle_user_login. *)

\* C21: the 200 response of a valid POST /login holds the four request
\* fields, and holds salesforce_lead_id exactly when create_salesforce_lead
\* succeeded in this request; whether handle_user_login succeeds, raises, or
\* returns the lead id that the table holds changes nothing in it.
C21_LoginResponseBody ==
    (pc = "responded" /\ IsValidLogin(event)) =>
        /\ response = [Response(200, "login") EXCEPT !.lead = (outcomes.crm = "ok")]
        /\ outcomes.db \in {"ok", "stored_id", "raise"}

\* C21 happens: create_salesforce_lead raised, handle_user_login returned the
\* lead id of the table, and the response holds no salesforce_lead_id.
C21_Witness ==
    /\ pc = "responded"
    /\ IsValidLogin(event)
    /\ outcomes.crm = "raise"
    /\ outcomes.db = "stored_id"
    /\ response.statusCode = 200
    /\ ~response.lead

\* The number of connection objects that are built and not yet closed after
\* the first n connection events of the last call.
OpenAfter(n) ==
    Cardinality({i \in 1..n : login.connections[i].op = "ConnectDB"})
    - Cardinality({i \in 1..n : login.connections[i].op = "close_connection"})

\* C22: every connection object that handle_user_login or
\* _fetch_existing_salesforce_lead_id builds is closed before the call
\* returns, whether its query ran, its conn was None, or its query raised; at
\* most one is open at a time, the one of the lookup being closed before the
\* one of the upsert is built.
C22_ConnectionsClosed ==
    /\ \A n \in 0..Len(login.connections) : OpenAfter(n) \in {0, 1}
    /\ OpenAfter(Len(login.connections)) = 0
    /\ \A i \in 1..Len(login.connections) :
          login.connections[i].op = "ConnectDB" =>
              \E j \in (i + 1)..Len(login.connections) :
                  /\ login.connections[j].conn = login.connections[i].conn
                  /\ login.connections[j].op = "close_connection"
    /\ \A i, j \in 1..Len(login.connections) :
          (login.connections[i].conn = "lookup" /\ login.connections[j].conn = "upsert") => i < j
    /\ (Truthy(login.user_data.email) /\ login.d.upsert # "unbuilt") =>
          \E i \in 1..Len(login.connections) :
              login.connections[i] = [conn |-> "upsert", op |-> "ConnectDB"]

\* C22 happens: in one call the lookup found conn to be None and the insert
\* raised, and both connection objects were closed.
C22_Witness ==
    /\ login.d = [fetch |-> "noconn", upsert |-> "raise"]
    /\ login.status_code = 500
    /\ login.connections =
          <<[conn |-> "lookup", op |-> "ConnectDB"], [conn |-> "lookup", op |-> "close_connection"],
            [conn |-> "upsert", op |-> "ConnectDB"], [conn |-> "upsert", op |-> "insert"],
            [conn |-> "upsert", op |-> "close_connection"]>>

\* C23: a call of handle_user_login whose user data has no email, or an empty
\* one, returns status_code 400 and status 'failed', builds no connection object, so runs no
\* lookup and no upsert, and leaves the users table as it was.
C23_EmailRequired ==
    (login.status_code # 0 /\ ~Truthy(login.user_data.email)) =>
        /\ login.status_code = 400
        /\ login.status = "failed"
        /\ login.connections = <<>>
        /\ users = login.prior

\* C23 happens: a call with an empty email and a lead id, on a table that
\* holds a row, returned 400.
C23_Witness ==
    /\ login.user_data = [email |-> Some(<<>>), salesforce_lead_id |-> Some(<<"L", "2">>)]
    /\ login.status_code = 400
    /\ login.prior # <<>>
    /\ users = login.prior

-----------------------------------------------------------------------------
(* Claims about get_final_agent_response. *)

\* The messages of the run: those of the last event of the stream.
RunMessages == stream[Len(stream)]

\* The run holds an AI message, and the last one has a string content.
EndsInTextAnswer ==
    /\ \E i \in 1..Len(RunMessages) : RunMessages[i].type = "ai"
    /\ LET last == CHOOSE i \in 1..Len(RunMessages) :
                      /\ RunMessages[i].type = "ai"
                      /\ \A j \in (i + 1)..Len(RunMessages) : RunMessages[j].type # "ai"
       IN  RunMessages[last].content.str

\* The string content of the last AI message of the run.
LastAiText ==
    LET last == CHOOSE i \in 1..Len(RunMessages) :
                    /\ RunMessages[i].type = "ai"
                    /\ \A j \in (i + 1)..Len(RunMessages) : RunMessages[j].type # "ai"
    IN  RunMessages[last].content.text

\* C24: for every stream, the string that get_final_agent_response returns is
\* the string content of the last AI message of the stream, with no text of an
\* earlier AI message in it.
C24_FinalAnswerOnly ==
    (pc = "answered" /\ EndsInTextAnswer) => final_answer = LastAiText

====
